---- MODULE Spec2Model ----
(***************************************************************************)
(* Model of backend/dictionary/index.py: the HTTP handler of the           *)
(* dictionary function and parse_definitions, the routine that extracts    *)
(* definition records from the markup of a Wiktionary page.                *)
(*                                                                         *)
(* Text is a sequence of one-character strings.  The regular expressions   *)
(* of the source are modelled by what Python's re does with them: a        *)
(* leftmost scan, [^>]* running to the first ">", (.*?) running to the     *)
(* first occurrence of the closing literal.                                *)
(***************************************************************************)
EXTENDS Integers, Sequences, FiniteSets, TLC

VARIABLES
    doc,          \* blueprint of the markup the dictionary service returns
    definitions,  \* what parse_definitions returned (NotRun before the call)
    pc,           \* "start" before the operation, "done" after it
    event,        \* the request given to handler
    fetch,        \* what urlopen/read/decode will do: "ok" or the exception
    response,     \* the response handler returned (NoResponse before)
    fetches,      \* number of outbound requests made by the invocation
    extractions   \* number of calls of parse_definitions by the invocation

vars == <<doc, definitions, pc, event, fetch, response, fetches, extractions>>

---------------------------------------------------------------------------
(* Program constants *)

MaxOlBlocks == 3
MaxLiItems == 5
MinItemLen == 10
MaxItemLen == 500
MinExampleLen == 5
MaxExamples == 2
MaxParagraphs == 3
MinParaLen == 30
MaxParaLen == 300
MaxResults == 10

\* the separator glyph U+25C6 of split (line 117), written here as an ASCII
\* character that occurs nowhere else in the model's text
Diamond == "@"
\* the fixed partOfSpeech label of line 124, transliterated
PrimaryLabel == "opredelenie"
Whitespace == {" ", "\n", "\t"}

SectionOpen == <<"<", "s", "e", "c", "t", "i", "o", "n">>
SectionAttr == <<"d", "a", "t", "a", "-", "m", "w", "-", "s", "e", "c", "t", "i", "o", "n", "-", "i", "d", "=", "\"", "1", "\"">>
SectionClose == <<"<", "/", "s", "e", "c", "t", "i", "o", "n", ">">>
OlOpen == <<"<", "o", "l", ">">>
OlClose == <<"<", "/", "o", "l", ">">>
LiOpen == <<"<", "l", "i">>
LiClose == <<"<", "/", "l", "i", ">">>
POpen == <<"<", "p">>
PClose == <<"<", "/", "p", ">">>

---------------------------------------------------------------------------
(* Text primitives *)

Rep(c, n) == [i \in 1..n |-> c]

\* s[i..] starts with the literal lit
StartsWithAt(s, i, lit) ==
    /\ i >= 1
    /\ i + Len(lit) - 1 <= Len(s)
    /\ \A k \in 1..Len(lit) : s[i + k - 1] = lit[k]

\* the first position >= i at which lit occurs in s, 0 when there is none
FindFrom(s, i, lit) ==
    IF \E j \in i..Len(s) : StartsWithAt(s, j, lit)
    THEN CHOOSE j \in i..Len(s) :
            /\ StartsWithAt(s, j, lit)
            /\ \A k \in i..(j - 1) : ~StartsWithAt(s, k, lit)
    ELSE 0

\* the first position >= i holding a whitespace character (white = TRUE) or
\* a character that is not whitespace (white = FALSE), 0 when there is none
FindClass(s, i, white) ==
    IF \E j \in i..Len(s) : (s[j] \in Whitespace) = white
    THEN CHOOSE j \in i..Len(s) :
            /\ (s[j] \in Whitespace) = white
            /\ \A k \in i..(j - 1) : (s[k] \in Whitespace) # white
    ELSE 0

\* the tail of a sequence from position i, and its first n elements
From(s, i) == SubSeq(s, i, Len(s))
Take(s, n) == SubSeq(s, 1, IF Len(s) < n THEN Len(s) ELSE n)

\* re.sub(r'<[^>]+>', '', s), from position i
RECURSIVE SubTagsFrom(_, _)
SubTagsFrom(s, i) ==
    LET p == FindFrom(s, i, <<"<">>)
        q == FindFrom(s, p + 2, <<">">>)
    IN  IF p = 0 THEN From(s, i)
        ELSE IF p + 1 <= Len(s) /\ s[p + 1] # ">" /\ q # 0
             THEN SubSeq(s, i, p - 1) \o SubTagsFrom(s, q + 1)
             ELSE SubSeq(s, i, p) \o SubTagsFrom(s, p + 1)

SubTags(s) == SubTagsFrom(s, 1)

\* re.sub(r'\s+', ' ', s), from position i
RECURSIVE SubSpacesFrom(_, _)
SubSpacesFrom(s, i) ==
    LET p == FindClass(s, i, TRUE)
        e == FindClass(s, p + 1, FALSE)
    IN  IF p = 0 THEN From(s, i)
        ELSE SubSeq(s, i, p - 1) \o <<" ">> \o
             (IF e = 0 THEN <<>> ELSE SubSpacesFrom(s, e))

SubSpaces(s) == SubSpacesFrom(s, 1)

\* str.strip()
Strip(s) ==
    LET N == {i \in 1..Len(s) : s[i] \notin Whitespace}
    IN  IF N = {} THEN <<>>
        ELSE SubSeq(s, CHOOSE i \in N : \A j \in N : i <= j,
                       CHOOSE i \in N : \A j \in N : i >= j)

\* str.split(Diamond), from position i
RECURSIVE SplitFrom(_, _)
SplitFrom(s, i) ==
    LET p == FindFrom(s, i, <<Diamond>>)
    IN  IF p = 0 THEN <<From(s, i)>>
        ELSE <<SubSeq(s, i, p - 1)>> \o SplitFrom(s, p + 1)

Split(s) == SplitFrom(s, 1)

\* the two substitutions and the strip applied to a list item or paragraph
CleanText(content) == Strip(SubSpaces(SubTags(content)))

---------------------------------------------------------------------------
(* The patterns of parse_definitions *)

\* re.findall of  open [^>]* ">" (.*?) close  (attrs = TRUE) or of
\* open (.*?) close  (attrs = FALSE), from position i: the groups in order
RECURSIVE FindAllFrom(_, _, _, _, _)
FindAllFrom(s, i, open, attrs, close) ==
    LET p == FindFrom(s, i, open)
        q == IF attrs THEN FindFrom(s, p + Len(open), <<">">>)
                      ELSE p + Len(open) - 1
        e == FindFrom(s, q + 1, close)
    IN  IF p = 0 THEN <<>>
        ELSE IF q = 0 \/ e = 0
             THEN FindAllFrom(s, p + 1, open, attrs, close)
             ELSE <<SubSeq(s, q + 1, e - 1)>> \o
                  FindAllFrom(s, e + Len(close), open, attrs, close)

\* re.search(r'<section[^>]*data-mw-section-id="1"[^>]*>(.*?)</section>'),
\* from position i
RECURSIVE SectionSearchFrom(_, _)
SectionSearchFrom(s, i) ==
    LET p == FindFrom(s, i, SectionOpen)
        q == FindFrom(s, p + Len(SectionOpen), <<">">>)
        a == FindFrom(s, p + Len(SectionOpen), SectionAttr)
        e == FindFrom(s, q + 1, SectionClose)
    IN  IF p = 0 THEN [matched |-> FALSE, group |-> <<>>]
        ELSE IF q = 0 \/ a = 0 \/ a + Len(SectionAttr) > q \/ e = 0
             THEN SectionSearchFrom(s, p + 1)
             ELSE [matched |-> TRUE, group |-> SubSeq(s, q + 1, e - 1)]

section_match(html) == SectionSearchFrom(html, 1)
ol_matches(section_html) == FindAllFrom(section_html, 1, OlOpen, FALSE, OlClose)
li_items(ol_content) == FindAllFrom(ol_content, 1, LiOpen, TRUE, LiClose)
p_tags(html) == FindAllFrom(html, 1, POpen, TRUE, PClose)

---------------------------------------------------------------------------
(* parse_definitions *)

\* examples = [ex.strip() for ex in parts[1:] if ex.strip() and len(ex.strip()) > 5]
RECURSIVE ExamplesFrom(_, _)
ExamplesFrom(parts, k) ==
    IF k > Len(parts) THEN <<>>
    ELSE LET ex == Strip(parts[k])
         IN  (IF ex # <<>> /\ Len(ex) > MinExampleLen THEN <<ex>> ELSE <<>>)
             \o ExamplesFrom(parts, k + 1)

\* PrimaryRecord with the cap of 2 applied to the segments before the filter
PrimaryRecord_CapFirst(def_id, clean_text) ==
    LET parts == Split(clean_text)
    IN  [id |-> def_id,
         meaning |-> Strip(parts[1]),
         partOfSpeech |-> PrimaryLabel,
         examples |-> ExamplesFrom(Take(parts, 1 + MaxExamples), 2)]

\* the record appended for an accepted list item
PrimaryRecord(def_id, clean_text) ==
    LET parts == Split(clean_text)
    IN  [id |-> def_id,
         meaning |-> Strip(parts[1]),
         partOfSpeech |-> PrimaryLabel,
         examples |-> Take(ExamplesFrom(parts, 2), MaxExamples)]

\* ItemAccepted with inclusive bounds
ItemAccepted_Inclusive(clean_text) ==
    MinItemLen <= Len(clean_text) /\ Len(clean_text) <= MaxItemLen

\* the length filter of a list item
ItemAccepted(clean_text) ==
    MinItemLen < Len(clean_text) /\ Len(clean_text) < MaxItemLen

\* the length filter of a paragraph
ParaAccepted(clean_text) ==
    MinParaLen < Len(clean_text) /\ Len(clean_text) < MaxParaLen

\* NextDefId counting the discarded items too
NextDefId_Always(def_id, accepted) == def_id + 1

\* def_id after a list item was handled
NextDefId(def_id, accepted) == IF accepted THEN def_id + 1 ELSE def_id

\* for li_content in li_items[:5], from item j; st = [definitions, def_id]
RECURSIVE LiLoop(_, _, _)
LiLoop(items, j, st) ==
    IF j > Len(items) THEN st
    ELSE LET clean_text == CleanText(items[j])
             ok == ItemAccepted(clean_text)
         IN  LiLoop(items, j + 1,
                [definitions |->
                    IF ok THEN Append(st.definitions,
                                      PrimaryRecord(st.def_id, clean_text))
                    ELSE st.definitions,
                 def_id |-> NextDefId(st.def_id, ok)])

\* ScannedItems without the [:5]
ScannedItems_Unlimited(ol_content) == li_items(ol_content)

\* the list items of one ordered list that are scanned
ScannedItems(ol_content) == Take(li_items(ol_content), MaxLiItems)

\* the ordered lists of the section that are scanned
ScannedLists(section_html) == Take(ol_matches(section_html), MaxOlBlocks)

\* for ol_content in ol_matches[:3], from list k
RECURSIVE OlLoop(_, _, _)
OlLoop(ols, k, st) ==
    IF k > Len(ols) THEN st
    ELSE OlLoop(ols, k + 1, LiLoop(ScannedItems(ols[k]), 1, st))

\* for p_content in p_tags[:3], from paragraph k, with its break
RECURSIVE PLoop(_, _, _)
PLoop(ps, k, st) ==
    IF k > Len(ps) THEN st
    ELSE LET clean_text == CleanText(ps[k])
         IN  IF ParaAccepted(clean_text)
             THEN [definitions |->
                      Append(st.definitions,
                             [id |-> st.def_id, meaning |-> clean_text,
                              partOfSpeech |-> "", examples |-> <<>>]),
                   def_id |-> st.def_id + 1]
             ELSE PLoop(ps, k + 1, st)

\* FallbackRuns without the test of line 129
FallbackRuns_Always(defs) == TRUE

\* whether the fallback path runs
FallbackRuns(defs) == defs = <<>>

\* Truncate without the [:10]
Truncate_None(defs) == defs

\* return definitions[:10]
Truncate(defs) == Take(defs, MaxResults)

parse_definitions(html) ==
    LET st0 == [definitions |-> <<>>, def_id |-> 1]
        sm == section_match(html)
        st1 == IF sm.matched
               THEN OlLoop(ScannedLists(sm.group), 1, st0)
               ELSE st0
        st2 == IF FallbackRuns(st1.definitions)
               THEN PLoop(Take(p_tags(html), MaxParagraphs), 1, st1)
               ELSE st1
    IN  Truncate(st2.definitions)

---------------------------------------------------------------------------
(* The markup handed to parse_definitions.  A document is described by a   *)
(* blueprint: paragraphs before the section, the section with its ordered  *)
(* lists of list items, paragraphs after it.  The body of a list item or   *)
(* paragraph is a run of pieces of text followed by pad filler characters. *)

Pieces ==
    [word    |-> <<"a", " ", "m", "e", "a", "n", "i", "n", "g", " ", "o", "f">>,
     bold    |-> <<"<", "b", ">">>,
     empty   |-> <<"<", ">">>,
     lt      |-> <<"<">>,
     gt      |-> <<">">>,
     space   |-> <<" ", "\n">>,
     diamond |-> <<Diamond>>,
     sample  |-> <<"s", "a", "m", "p", "l", "e">>,
     short   |-> <<"s", "h", "o", "r", "t">>,
     example |-> <<"a", "n", " ", "e", "x", "a", "m", "p", "l", "e">>]

ItemOf(pieces, pad) == [pieces |-> pieces, pad |-> pad]

RECURSIVE ConcatPieces(_, _)
ConcatPieces(ps, k) ==
    IF k > Len(ps) THEN <<>> ELSE Pieces[ps[k]] \o ConcatPieces(ps, k + 1)

\* the text of a list item or paragraph
Body(item) == ConcatPieces(item.pieces, 1) \o Rep("x", item.pad)

SectionTag(id) ==
    <<"<", "s", "e", "c", "t", "i", "o", "n", " ">> \o
    <<"d", "a", "t", "a", "-", "m", "w", "-", "s", "e", "c", "t", "i", "o", "n", "-", "i", "d", "=", "\"", id, "\"", ">">>

OlAttrTag == <<"<", "o", "l", " ", "s", "t", "a", "r", "t", "=", "\"", "2", "\"", ">">>

RECURSIVE RenderItems(_, _, _, _)
RenderItems(items, k, open, close) ==
    IF k > Len(items) THEN <<>>
    ELSE open \o Body(items[k]) \o close \o RenderItems(items, k + 1, open, close)

RECURSIVE RenderLists(_, _, _)
RenderLists(ols, k, firstHasAttr) ==
    IF k > Len(ols) THEN <<>>
    ELSE (IF k = 1 /\ firstHasAttr THEN OlAttrTag ELSE OlOpen) \o
         RenderItems(ols[k], 1, <<"<", "l", "i", ">">>, LiClose) \o OlClose \o
         RenderLists(ols, k + 1, firstHasAttr)

\* the markup of a blueprint
Render(d) ==
    RenderItems(d.pre, 1, <<"<", "p", ">">>, PClose) \o
    (IF d.section = "none" THEN <<>>
     ELSE SectionTag(d.section) \o RenderLists(d.ols, 1, d.olAttr) \o SectionClose) \o
    RenderItems(d.post, 1, <<"<", "p", ">">>, PClose)

Blueprint(pre, section, olAttr, ols, post) ==
    [pre |-> pre, section |-> section, olAttr |-> olAttr, ols |-> ols, post |-> post]

---------------------------------------------------------------------------
(* The documents explored *)

MaxPieces == 3   \* pieces in an explored list item or paragraph
MaxOl == 4       \* ordered lists in the section
MaxLi == 6       \* list items in an ordered list
MaxP == 4        \* paragraphs in the document

ExplorePieces ==
    {"word", "bold", "empty", "lt", "gt", "space", "diamond", "sample", "short"}

PieceSeqs == UNION {[1..k -> ExplorePieces] : k \in 0..MaxPieces}

\* a section 1 holding one list of one item; a document of one paragraph
LiDoc(item) == Blueprint(<<>>, "1", FALSE, << <<item>> >>, <<>>)
PDoc(item) == Blueprint(<<item>>, "none", FALSE, <<>>, <<>>)

\* every short run of pieces as a list item and as a paragraph
ContentDocs ==
    {LiDoc(ItemOf(ps, pad)) : ps \in PieceSeqs, pad \in {0, 9}} \cup
    {PDoc(ItemOf(ps, 25)) : ps \in PieceSeqs}

\* cleaned lengths around the four bounds of the length filters
BoundaryDocs ==
    {LiDoc(ItemOf(ps, n)) :
        ps \in {<<>>, <<"bold">>, <<"space">>, <<"diamond">>},
        n \in ((MinItemLen - 1)..(MinItemLen + 1)) \cup
              ((MaxItemLen - 1)..(MaxItemLen + 1))} \cup
    {PDoc(ItemOf(ps, n)) :
        ps \in {<<>>, <<"bold">>, <<"space">>},
        n \in ((MinParaLen - 1)..(MinParaLen + 1)) \cup
              ((MaxParaLen - 1)..(MaxParaLen + 1))}

\* the list item at position n of the section: accepted ("A": its length
\* tells n), rejected ("R"), with a short segment, an empty segment and
\* two examples ("X"), with three examples ("Y")
KindItem(kind, n) ==
    CASE kind = "A" -> ItemOf(<<"word">>, n)
      [] kind = "R" -> ItemOf(<<"short">>, 0)
      [] kind = "X" -> ItemOf(<<"bold", "word", "diamond", "short", "diamond", "diamond",
                                "sample", "space", "diamond", "example">>, n)
      [] kind = "Y" -> ItemOf(<<"word", "space", "diamond", "example", "diamond",
                                "sample", "diamond", "example">>, n)

Patterns ==
    { <<"A">>, <<"R">>, <<"A", "R">>, <<"R", "A", "A">>, <<"X", "R", "Y">>,
      <<"R", "R", "R", "R", "R", "A">> }

StructLists(nOl, nLi, pat) ==
    [k \in 1..nOl |->
        [j \in 1..nLi |->
            KindItem(pat[(((k - 1) * nLi + j - 1) % Len(pat)) + 1],
                     (k - 1) * nLi + j)]]

GoodPara == ItemOf(<<"word">>, 25)

\* sections of up to MaxOl lists of up to MaxLi items
StructDocs ==
    {Blueprint(<<>>, "1", FALSE, StructLists(nOl, nLi, pat), post) :
        nOl \in 0..MaxOl, nLi \in 0..MaxLi, pat \in Patterns,
        post \in {<<>>, <<GoodPara>>}} \cup
    {Blueprint(<<>>, sec, attr, StructLists(nOl, nLi, <<"A">>), <<GoodPara>>) :
        nOl \in 0..MaxOl, nLi \in 0..MaxLi, sec \in {"1", "2"},
        attr \in BOOLEAN}

ParaItem(kind, k) ==
    CASE kind = "short" -> ItemOf(<<>>, MinParaLen)
      [] kind = "good" -> ItemOf(<<"bold">>, MinParaLen + k)
      [] kind = "long" -> ItemOf(<<>>, MaxParaLen)

ParaSeqs == UNION {[1..k -> {"short", "good", "long"}] : k \in 0..MaxP}

\* up to MaxP paragraphs, then no section, a section whose only item is
\* rejected, or a section with an accepted item
ParaDocs ==
    {Blueprint([k \in 1..Len(ks) |-> ParaItem(ks[k], k)], sec[1], FALSE, sec[2], <<>>) :
        ks \in ParaSeqs,
        sec \in { <<"none", <<>> >>,
                  <<"1", << <<KindItem("R", 1)>> >> >>,
                  <<"1", << <<KindItem("A", 1)>> >> >> }}

Docs == ContentDocs \cup BoundaryDocs \cup StructDocs \cup ParaDocs

---------------------------------------------------------------------------
(* The extractor called on its own *)

DirectCall == "direct call"
NoResponse == "no response"

Init ==
    /\ doc \in Docs
    /\ definitions = <<>>
    /\ pc = "start"
    /\ event = DirectCall
    /\ fetch = "ok"
    /\ response = NoResponse
    /\ fetches = 0
    /\ extractions = 0

ParseDefinitions ==
    /\ pc = "start"
    /\ definitions' = parse_definitions(Render(doc))
    /\ extractions' = extractions + 1
    /\ pc' = "done"
    /\ UNCHANGED <<doc, event, fetch, response, fetches>>

Next == ParseDefinitions

Spec == Init /\ [][Next]_vars

---------------------------------------------------------------------------
(* handler *)

Absent == "absent"   \* a key the dictionary does not hold
None == "None"       \* Python's None

Methods == {Absent, "GET", "OPTIONS", "POST", "DELETE"}

Words ==
    { <<>>, <<" ">>, <<" ", "\n", "\t">>, <<"w", "o", "r", "d">>,
      <<" ", "w", "o", "r", "d", "\n">>, <<"a", " ", "b">> }

\* queryStringParameters: no such key, None, a dictionary without the key
\* word, or a dictionary that holds it
QueryParams ==
    {[kind |-> k, hasWord |-> FALSE, word |-> <<>>] : k \in {Absent, None, "dict"}} \cup
    {[kind |-> "dict", hasWord |-> TRUE, word |-> w] : w \in Words}

Events == [httpMethod : Methods, queryStringParameters : QueryParams]

\* what urlopen(req, timeout=10), response.read() and decode('utf-8') do
FetchOutcomes == {"ok", "URLError", "timeout", "UnicodeDecodeError"}

\* the pages the dictionary service answers with
HandlerDocs ==
    { PDoc(ItemOf(<<>>, MinParaLen)),
      PDoc(ItemOf(<<>>, MinParaLen + 1)),
      LiDoc(KindItem("R", 1)),
      LiDoc(KindItem("X", 1)),
      LiDoc(ItemOf(<<"diamond", "word">>, 0)),
      Blueprint(<<>>, "1", FALSE, StructLists(MaxOlBlocks, MaxLiItems, <<"A">>), <<>>) }

\* event.get('httpMethod', 'GET')
MethodOf(ev) == IF ev.httpMethod = Absent THEN "GET" ELSE ev.httpMethod

\* WordOf without the strip()
WordOf_NoStrip(ev) ==
    LET qs == ev.queryStringParameters
    IN  IF qs.kind = Absent \/ qs.kind = None THEN <<>>
        ELSE IF qs.hasWord THEN qs.word ELSE <<>>

\* params = event.get('queryStringParameters') or {};
\* word = params.get('word', '').strip()
WordOf(ev) ==
    LET qs == ev.queryStringParameters
    IN  IF qs.kind = Absent \/ qs.kind = None THEN <<>>
        ELSE IF qs.hasWord THEN Strip(qs.word) ELSE <<>>

\* whether the request is answered with 400
WordMissing(word) == word = <<>>

\* StatusOf without the test of line 62
StatusOf_AlwaysOk(defs) == 200

\* the status of a GET whose page was fetched and parsed
StatusOf(defs) == IF defs = <<>> THEN 404 ELSE 200

ErrorBody(msg) == [kind |-> "error", error |-> msg]

HandlerInit ==
    /\ doc \in HandlerDocs
    /\ definitions = <<>>
    /\ pc = "start"
    /\ event \in Events
    /\ fetch \in FetchOutcomes
    /\ response = NoResponse
    /\ fetches = 0
    /\ extractions = 0

handler ==
    /\ pc = "start"
    /\ pc' = "done"
    /\ UNCHANGED <<doc, event, fetch>>
    /\ LET method == MethodOf(event)
           word == WordOf(event)
       IN  IF method = "OPTIONS"
           THEN /\ response' = [statusCode |-> 200, body |-> [kind |-> "empty"]]
                /\ UNCHANGED <<definitions, fetches, extractions>>
           ELSE IF method # "GET"
           THEN /\ response' = [statusCode |-> 405,
                                body |-> ErrorBody("Method not allowed")]
                /\ UNCHANGED <<definitions, fetches, extractions>>
           ELSE IF WordMissing(word)
           THEN /\ response' = [statusCode |-> 400,
                                body |-> ErrorBody("word is required")]
                /\ UNCHANGED <<definitions, fetches, extractions>>
           ELSE /\ fetches' = fetches + 1
                /\ IF fetch # "ok"
                   THEN /\ response' = [statusCode |-> 500, body |-> ErrorBody(fetch)]
                        /\ UNCHANGED <<definitions, extractions>>
                   ELSE /\ extractions' = extractions + 1
                        /\ definitions' = parse_definitions(Render(doc))
                        /\ response' =
                              IF StatusOf(definitions') = 404
                              THEN [statusCode |-> 404, body |-> ErrorBody("not found")]
                              ELSE [statusCode |-> 200,
                                    body |-> [kind |-> "definitions", word |-> word,
                                              definitions |-> definitions']]

HandlerNext == handler

HandlerSpec == HandlerInit /\ [][HandlerNext]_vars

---------------------------------------------------------------------------
(* What the blueprint of a document says about it, for the properties     *)

Done == pc = "done"

RECURSIVE Flatten(_, _)
Flatten(ss, k) == IF k > Len(ss) THEN <<>> ELSE ss[k] \o Flatten(ss, k + 1)

FirstN(s, n) == [i \in 1..(IF Len(s) < n THEN Len(s) ELSE n) |-> s[i]]

\* the cleaned text of a list item or paragraph of the blueprint
CleanOf(item) == CleanText(Body(item))

LiQualifies(item) == Len(CleanOf(item)) > 10 /\ Len(CleanOf(item)) < 500
PQualifies(item) == Len(CleanOf(item)) > 30 /\ Len(CleanOf(item)) < 300

\* every list item of section 1, in document order
SectionItems(d) == IF d.section = "1" THEN Flatten(d.ols, 1) ELSE <<>>

\* the lists of section 1 written <ol>...</ol>, in document order
PlainLists(d) ==
    IF d.section # "1" THEN <<>>
    ELSE IF d.olAttr THEN SubSeq(d.ols, 2, Len(d.ols)) ELSE d.ols

\* the first 5 items of each of the first 3 such lists, in document order
ScannedOf(d) ==
    LET ls == FirstN(PlainLists(d), 3)
    IN  Flatten([k \in 1..Len(ls) |-> FirstN(ls[k], 5)], 1)

\* those of them that pass the length filter, in document order
QualifyingOf(d) == SelectSeq(ScannedOf(d), LiQualifies)

\* the paragraphs of the document, in document order
ParagraphsOf(d) == d.pre \o d.post

Smaller(a, b) == IF a < b THEN a ELSE b

---------------------------------------------------------------------------
(* C1: every record returned by parse_definitions, from the primary or    *)
(* the fallback path, has a non-empty meaning, also for a list item that  *)
(* passes the length filter and has nothing but whitespace before its     *)
(* first separator glyph.                                                  *)
C1_MeaningNonEmpty ==
    Done => \A i \in 1..Len(definitions) : definitions[i].meaning # <<>>

---------------------------------------------------------------------------
(* C2 as stated: when section 1 holds ordered lists, the number of        *)
(* records equals the number of list items of the section that pass the   *)
(* length filter, capped at 15 and then truncated to 10.                  *)
C2_CountOfSectionItems ==
    (Done /\ doc.section = "1" /\ Len(doc.ols) > 0) =>
        Len(definitions) =
            Smaller(Smaller(Len(SelectSeq(SectionItems(doc), LiQualifies)), 15), 10)

(* C2 as amended: with n the number of items that pass the length filter  *)
(* among the first 5 items of each of the first 3 <ol>...</ol> blocks of  *)
(* section 1, the result has min(n, 10) records when n >= 1, and at most  *)
(* the one fallback record when n = 0.                                    *)
C2_CountOfScannedItems ==
    (Done /\ doc.section = "1") =>
        LET n == Len(QualifyingOf(doc))
        IN  IF n >= 1 THEN Len(definitions) = Smaller(n, 10)
            ELSE /\ Len(definitions) <= 1
                 /\ \A i \in 1..Len(definitions) :
                        definitions[i].partOfSpeech = ""

\* a section of more than 3 lists of more than 5 items, 15 of them scanned
\* and accepted, 10 returned
C2_Witness ==
    /\ Done
    /\ doc.section = "1"
    /\ Len(doc.ols) > 3
    /\ \A k \in 1..Len(doc.ols) : Len(doc.ols[k]) > 5
    /\ Len(SelectSeq(SectionItems(doc), LiQualifies)) > 15
    /\ Len(QualifyingOf(doc)) = 15
    /\ Len(definitions) = 10

---------------------------------------------------------------------------
(* C3: no meaning returned by parse_definitions contains a "<" followed   *)
(* anywhere later by a ">" (the text "<>" included), and none contains    *)
(* two consecutive spaces.                                                 *)
NoAngleSubstring(t) ==
    ~ \E a \in 1..Len(t) : \E b \in (a + 1)..Len(t) : t[a] = "<" /\ t[b] = ">"

NoDoubleSpace(t) ==
    ~ \E a \in 1..(Len(t) - 1) : t[a] = " " /\ t[a + 1] = " "

C3_MeaningFreeOfTags ==
    Done => \A i \in 1..Len(definitions) :
                /\ NoAngleSubstring(definitions[i].meaning)
                /\ NoDoubleSpace(definitions[i].meaning)

---------------------------------------------------------------------------
(* The segments of a cleaned list item, read off the positions of the     *)
(* separator glyph                                                         *)

GlyphsOf(c) == {i \in 1..Len(c) : c[i] = Diamond}

\* the position of the k-th glyph; 0 for k = 0, Len(c) + 1 past the last
GlyphAt(c, k) ==
    IF k = 0 THEN 0
    ELSE IF k > Cardinality(GlyphsOf(c)) THEN Len(c) + 1
    ELSE CHOOSE g \in GlyphsOf(c) :
            Cardinality({h \in GlyphsOf(c) : h < g}) = k - 1

\* text without the blanks at its two ends
Trimmed(t) ==
    LET blank(i) == t[i] \in {" ", "\n", "\t"}
        lead == Cardinality({i \in 1..Len(t) : \A j \in 1..i : blank(j)})
        trail == Cardinality({i \in 1..Len(t) : \A j \in i..Len(t) : blank(j)})
    IN  IF lead = Len(t) THEN <<>>
        ELSE [i \in 1..(Len(t) - lead - trail) |-> t[lead + i]]

\* segment k of c, trimmed: segment 1 is the text before the first glyph
SegmentOf(c, k) ==
    Trimmed([i \in 1..(GlyphAt(c, k) - GlyphAt(c, k - 1) - 1) |->
                c[GlyphAt(c, k - 1) + i]])

\* the numbers of the segments after the first that are longer than 5
LongSegments(c) ==
    {k \in 2..(Cardinality(GlyphsOf(c)) + 1) : Len(SegmentOf(c, k)) > 5}

\* the examples of c: its first 2 long segments, in order
ExamplesOf(c) ==
    LET ks == LongSegments(c)
        nth(j) == CHOOSE k \in ks : Cardinality({h \in ks : h < k}) = j - 1
    IN  [j \in 1..Smaller(Cardinality(ks), 2) |-> SegmentOf(c, nth(j))]

\* the record the item at position i of the accepted items stands for
RecordOf(item, i) ==
    [id |-> i,
     meaning |-> SegmentOf(CleanOf(item), 1),
     partOfSpeech |-> "opredelenie",
     examples |-> ExamplesOf(CleanOf(item))]

\* the first paragraphs that the fallback looks at, and the positions among
\* them of those that pass its length filter
FallbackParagraphs(d) == FirstN(ParagraphsOf(d), 3)
FallbackHits(d) ==
    {k \in 1..Len(FallbackParagraphs(d)) : PQualifies(FallbackParagraphs(d)[k])}

\* a document of section 1 with a single <ol> list of a single item and no
\* paragraph; a document of a single paragraph and no section
IsLiDoc(d) ==
    /\ d.section = "1" /\ ~d.olAttr /\ Len(d.ols) = 1 /\ Len(d.ols[1]) = 1
    /\ d.pre = <<>> /\ d.post = <<>>
IsPDoc(d) == d.section = "none" /\ Len(d.pre) = 1 /\ d.post = <<>>

---------------------------------------------------------------------------
(* C6: the fallback runs exactly when the primary path accepted no        *)
(* record.  It looks at the first 3 paragraphs of the document only,      *)
(* takes the first of them whose cleaned length is strictly between 30    *)
(* and 300 and stops: the result is then one record with id 1, empty      *)
(* partOfSpeech and no examples.  No result mixes primary records with a  *)
(* fallback record; a qualifying paragraph at position 4 or later gives   *)
(* an empty result.                                                        *)
C6_Fallback ==
    Done =>
        IF Len(QualifyingOf(doc)) > 0
        THEN /\ definitions # <<>>
             /\ \A i \in 1..Len(definitions) :
                    definitions[i].partOfSpeech = "opredelenie"
        ELSE IF FallbackHits(doc) = {}
        THEN definitions = <<>>
        ELSE LET k == CHOOSE h \in FallbackHits(doc) :
                        \A g \in FallbackHits(doc) : h <= g
             IN  definitions =
                    << [id |-> 1,
                        meaning |-> CleanOf(FallbackParagraphs(doc)[k]),
                        partOfSpeech |-> "",
                        examples |-> <<>>] >>

\* no primary record, the fourth paragraph alone qualifies: nothing returned
C6_Witness ==
    /\ Done
    /\ Len(QualifyingOf(doc)) = 0
    /\ Len(ParagraphsOf(doc)) >= 4
    /\ PQualifies(ParagraphsOf(doc)[4])
    /\ FallbackHits(doc) = {}
    /\ definitions = <<>>

---------------------------------------------------------------------------
(* C7: both length filters are strict on both bounds.  A list item whose  *)
(* cleaned text has length 10 or 500 gives no record and one of length 11 *)
(* or 499 gives one; a paragraph of length 30 or 300 is not accepted by   *)
(* the fallback and one of length 31 or 299 is.                           *)
C7_StrictBounds ==
    Done =>
        /\ IsLiDoc(doc) =>
              LET n == Len(CleanOf(doc.ols[1][1]))
              IN  /\ n \in {10, 500} => definitions = <<>>
                  /\ n \in {11, 499} =>
                        /\ Len(definitions) = 1
                        /\ definitions[1].partOfSpeech = "opredelenie"
        /\ IsPDoc(doc) =>
              LET n == Len(CleanOf(doc.pre[1]))
              IN  /\ n \in {30, 300} => definitions = <<>>
                  /\ n \in {31, 299} =>
                        /\ Len(definitions) = 1
                        /\ definitions[1].partOfSpeech = ""

\* a list item of exactly 500 characters was parsed and gave nothing
C7_Witness ==
    /\ Done
    /\ IsLiDoc(doc)
    /\ Len(CleanOf(doc.ols[1][1])) = 500
    /\ definitions = <<>>

---------------------------------------------------------------------------
(* C8: the record at position i has id i: ids start at 1, grow by 1 per   *)
(* accepted record with no gap for a discarded item, continue across the  *)
(* ordered lists, and the records stand in the order of their list items  *)
(* in the markup, also after the truncation to 10.                        *)
C8_SequentialIds ==
    Done =>
        /\ \A i \in 1..Len(definitions) : definitions[i].id = i
        /\ Len(QualifyingOf(doc)) > 0 =>
              \A i \in 1..Len(definitions) :
                  /\ i <= Len(QualifyingOf(doc))
                  /\ definitions[i].meaning =
                        SegmentOf(CleanOf(QualifyingOf(doc)[i]), 1)

\* the first scanned item was discarded, the first list gave a record and
\* a later list gave the records after it
C8_Witness ==
    /\ Done
    /\ Len(PlainLists(doc)) >= 2
    /\ Len(ScannedOf(doc)) > 0
    /\ ~LiQualifies(ScannedOf(doc)[1])
    /\ Len(SelectSeq(FirstN(PlainLists(doc)[1], 5), LiQualifies)) >= 1
    /\ Len(definitions) > Len(SelectSeq(FirstN(PlainLists(doc)[1], 5), LiQualifies))
    /\ definitions[Len(definitions)].id = Len(definitions)

---------------------------------------------------------------------------
(* C9: the list returned has at most 10 records, also when section 1      *)
(* holds 3 lists of 5 qualifying items; the records kept are the first    *)
(* 10 in the order of discovery.                                           *)
C9_AtMostTen ==
    Done =>
        /\ Len(definitions) <= 10
        /\ Len(QualifyingOf(doc)) > 10 =>
              definitions = [i \in 1..10 |-> RecordOf(QualifyingOf(doc)[i], i)]

\* 15 items were accepted and 10 records returned
C9_Witness ==
    /\ Done
    /\ Len(QualifyingOf(doc)) = 15
    /\ Len(definitions) = 10

---------------------------------------------------------------------------
(* C10: in a record of the primary path, meaning is the trimmed text      *)
(* before the first separator glyph of the cleaned item and examples are  *)
(* the first 2, in order, of the trimmed segments after a glyph that are  *)
(* longer than 5 characters: 0 to 2 examples, none of 5 characters or     *)
(* fewer, a short segment skipped and not counted toward the 2.           *)
(* partOfSpeech is the fixed label.                                        *)
C10_MeaningAndExamples ==
    (Done /\ Len(QualifyingOf(doc)) > 0) =>
        \A i \in 1..Len(definitions) :
            /\ definitions[i].partOfSpeech = "opredelenie"
            /\ definitions[i].meaning = SegmentOf(CleanOf(QualifyingOf(doc)[i]), 1)
            /\ definitions[i].examples = ExamplesOf(CleanOf(QualifyingOf(doc)[i]))
            /\ Len(definitions[i].examples) <= 2
            /\ \A j \in 1..Len(definitions[i].examples) :
                   Len(definitions[i].examples[j]) > 5

\* an item whose first segment after the glyph is short and is followed by
\* two long ones: both long ones are the examples
C10_Witness ==
    /\ Done
    /\ Len(QualifyingOf(doc)) > 0
    /\ \E i \in 1..Len(definitions) :
          LET c == CleanOf(QualifyingOf(doc)[i])
          IN  /\ Len(SegmentOf(c, 2)) \in 1..5
              /\ Cardinality(LongSegments(c)) >= 2
              /\ Len(definitions[i].examples) = 2
              /\ definitions[i].examples[1] # SegmentOf(c, 2)

---------------------------------------------------------------------------
(* What a request says about itself, for the properties of handler        *)

\* the method is GET: event.get('httpMethod', 'GET') makes a request
\* without httpMethod a GET
IsGet(ev) == ev.httpMethod \in {"GET", Absent}

\* the word parameter is there and holds a character that is not blank
HasWord(ev) ==
    /\ ev.queryStringParameters.kind = "dict"
    /\ ev.queryStringParameters.hasWord
    /\ \E i \in 1..Len(ev.queryStringParameters.word) :
          ev.queryStringParameters.word[i] \notin {" ", "\n", "\t"}

\* the page holds nothing the extractor accepts
NothingToExtract(d) == Len(QualifyingOf(d)) = 0 /\ FallbackHits(d) = {}

---------------------------------------------------------------------------
(* C4: handler fetches and calls parse_definitions only for a GET whose   *)
(* word is non-empty after trimming.  OPTIONS is answered 200 with an     *)
(* empty body, any other method than GET 405, a GET with a missing, empty *)
(* or blank word or without queryStringParameters 400, each without any   *)
(* fetch or extraction.                                                    *)
C4_NoFetchUnlessGetWithWord ==
    Done =>
        /\ event.httpMethod = "OPTIONS" =>
              /\ response = [statusCode |-> 200, body |-> [kind |-> "empty"]]
              /\ fetches = 0 /\ extractions = 0
        /\ (~IsGet(event) /\ event.httpMethod # "OPTIONS") =>
              /\ response.statusCode = 405
              /\ fetches = 0 /\ extractions = 0
        /\ (IsGet(event) /\ ~HasWord(event)) =>
              /\ response.statusCode = 400
              /\ fetches = 0 /\ extractions = 0
        /\ (fetches > 0 \/ extractions > 0) => (IsGet(event) /\ HasWord(event))

\* a GET whose word is blanks only was answered 400 and nothing was fetched
C4_Witness ==
    /\ Done
    /\ event.httpMethod = "GET"
    /\ event.queryStringParameters.hasWord
    /\ event.queryStringParameters.word # <<>>
    /\ ~HasWord(event)
    /\ response.statusCode = 400
    /\ fetches = 0
    /\ extractions = 0

---------------------------------------------------------------------------
(* C5: for a GET with a non-empty word handler fetches at most once and   *)
(* answers 500 with an error body when the fetch or the decoding raises,  *)
(* 404 with an error body when the extractor returns nothing, and 200     *)
(* with the word and the definitions otherwise.  A 200 never carries an   *)
(* empty list of definitions, a 404 or 500 never carries definitions.     *)
C5_StatusOfGet ==
    (Done /\ IsGet(event) /\ HasWord(event)) =>
        /\ fetches <= 1
        /\ extractions <= 1
        /\ response.statusCode =
              (IF fetch # "ok" THEN 500
               ELSE IF NothingToExtract(doc) THEN 404 ELSE 200)
        /\ response.statusCode \in {404, 500} => response.body.kind = "error"
        /\ response.statusCode = 200 =>
              /\ response.body.kind = "definitions"
              /\ response.body.definitions # <<>>
              /\ response.body.definitions = definitions
              /\ response.body.word = Trimmed(event.queryStringParameters.word)

\* the page was fetched, the extractor found nothing, the answer is 404
C5_Witness ==
    /\ Done
    /\ IsGet(event) /\ HasWord(event)
    /\ fetch = "ok"
    /\ fetches = 1
    /\ extractions = 1
    /\ definitions = <<>>
    /\ response.statusCode = 404

====
